---- MODULE Spec2Model ----
(***************************************************************************)
(* Model of ty.py: the _check() evaluator, the all()/any() combinators and *)
(* the typecheck() decorator with its per-call wrapper.                    *)
(*                                                                         *)
(* Python objects are abstracted as follows.                               *)
(*   - a value is one of Values;                                           *)
(*   - the result of calling something is a Python return value (one of    *)
(*     RetVals, of which Truthy are the ones bool() maps to True) or a     *)
(*     raised exception (one of Errors);                                   *)
(*   - a test (annotation) is a record                                     *)
(*       kind : "class" | "callable" | "other" | "all" | "any"             *)
(*       meta : for a class, its metaclass: "type" or "custom"             *)
(*       inst : for a class, the values that are instances of it           *)
(*       out  : what calling the object with one argument does, per value  *)
(*       subs : for the closures built by all()/any(), the captured tests  *)
(***************************************************************************)
EXTENDS Integers, Sequences, FiniteSets, TLC

\* Largest number of tests handed to all() / any().
MaxTests == 2
\* Largest number of positional arguments in a call.
MaxArgs == 2
\* Largest number of keyword arguments in a call.
MaxKwargs == 1

\* ---------------------------------------------------------------- state

VARIABLES
    theSubject,    \* evaluator: the value under test
    theTest,       \* evaluator: the test it is checked against
    op,         \* evaluator: which function was applied ("none" before)
    result,     \* evaluator: what it returned or raised
    evaluated,  \* evaluator: how many of the tests all()/any() called _check() on
    f,          \* the function handed to typecheck()
    decorated,  \* what typecheck(f) returned: "f", "wrapper"; "none" before
    pc,         \* where the call is
    args,       \* the call's positional arguments
    kwargs,     \* the call's keyword arguments
    invoked,    \* the calls of f made during the call, with what f returned
    output,     \* the wrapper's local variable output
    exc,        \* the exception the call raised
    retval      \* the value the call returned

evalVars == <<theSubject, theTest, op, result, evaluated>>

callVars == <<f, decorated, pc, args, kwargs, invoked, output, exc, retval>>

vars == <<theSubject, theTest, op, result, evaluated,
          f, decorated, pc, args, kwargs, invoked, output, exc, retval>>

\* --------------------------------------------------------------- values

Values == {"n", "b"}

RetVals == {"True", "False", "1", "0"}
Truthy == {"True", "1"}
Errors == {"TypeError", "Exception"}
Outcomes == RetVals \cup Errors

ConstOut(o) == [v \in Values |-> o]

\* bool(x) for a returned value x.
bool(x) == IF x \in Truthy THEN "True" ELSE "False"

\* ---------------------------------------------------------------- tests

ClassTest(meta, inst, out) ==
    [kind |-> "class", meta |-> meta, inst |-> inst, out |-> out, subs |-> <<>>]

CallableTest(out) ==
    [kind |-> "callable", meta |-> "function", inst |-> {}, out |-> out, subs |-> <<>>]

\* Anything that is neither a class nor callable: "bar", 12.5, None.
OtherTest ==
    [kind |-> "other", meta |-> "none", inst |-> {}, out |-> ConstOut("TypeError"), subs |-> <<>>]

\* all(*tests) returns the closure f capturing tests.
all(tests) ==
    [kind |-> "all", meta |-> "function", inst |-> {}, out |-> ConstOut("True"), subs |-> tests]

\* any(*tests) returns the closure f capturing tests.
any(tests) ==
    [kind |-> "any", meta |-> "function", inst |-> {}, out |-> ConstOut("False"), subs |-> tests]

\* type(test) == type
IsPlainType(test) == test.kind = "class" /\ test.meta = "type"

callable(obj) == obj.kind \in {"class", "callable", "all", "any"}

isinstance(subject, test) == IF subject \in test.inst THEN "True" ELSE "False"

\* ------------------------------------------------------------ evaluator

RECURSIVE _check(_, _), Call(_, _), AllLoop(_, _, _), AnyLoop(_, _, _)

RECURSIVE AllLoopEager(_, _, _), AnyLoopNoCatch(_, _, _)

\* all() without the early return: every test is evaluated.
AllLoopEager(x, tests, i) ==
    IF i > Len(tests) THEN [res |-> "True", n |-> Len(tests)]
    ELSE LET r == _check(x, tests[i])
         IN  IF r \in Errors THEN [res |-> r, n |-> i]
             ELSE LET rest == AllLoopEager(x, tests, i + 1)
                  IN  IF r = "True" \/ rest.res \in Errors THEN rest
                      ELSE [res |-> "False", n |-> rest.n]

\* any() without the try / except TypeError.
AnyLoopNoCatch(x, tests, i) ==
    IF i > Len(tests) THEN [res |-> "False", n |-> Len(tests)]
    ELSE LET r == _check(x, tests[i])
         IN  IF r \in Errors THEN [res |-> r, n |-> i]
             ELSE IF r = "True" THEN [res |-> "True", n |-> i]
             ELSE AnyLoopNoCatch(x, tests, i + 1)

\* The loop of all.<locals>.f from test number i on: the result of f(x) and
\* the number of tests _check() was called on.
AllLoop(x, tests, i) ==
    IF i > Len(tests) THEN [res |-> "True", n |-> Len(tests)]
    ELSE LET r == _check(x, tests[i])
         IN  IF r \in Errors THEN [res |-> r, n |-> i]
             ELSE IF r # "True" THEN [res |-> "False", n |-> i]
             ELSE AllLoop(x, tests, i + 1)

\* The loop of any.<locals>.f from test number i on.
AnyLoop(x, tests, i) ==
    IF i > Len(tests) THEN [res |-> "False", n |-> Len(tests)]
    ELSE LET r == _check(x, tests[i])
         IN  IF r = "TypeError" THEN AnyLoop(x, tests, i + 1)
             ELSE IF r \in Errors THEN [res |-> r, n |-> i]
             ELSE IF r = "True" THEN [res |-> "True", n |-> i]
             ELSE AnyLoop(x, tests, i + 1)

AllF(x, tests) == AllLoop(x, tests, 1)

AnyF(x, tests) == AnyLoop(x, tests, 1)

\* test(subject): what calling the object does.
Call(test, subject) ==
    CASE test.kind = "all" -> AllF(subject, test.subs).res
      [] test.kind = "any" -> AnyF(subject, test.subs).res
      [] OTHER -> test.out[subject]

\* _check() turning an error of the callable into a failed test.
CheckSwallow(subject, test) ==
    IF IsPlainType(test) THEN isinstance(subject, test)
    ELSE IF callable(test)
         THEN LET r == Call(test, subject)
              IN  IF r \in Errors THEN "False" ELSE bool(r)
    ELSE "True"

_check(subject, test) ==
    IF IsPlainType(test) THEN isinstance(subject, test)
    ELSE IF callable(test)
         THEN LET r == Call(test, subject)
              IN  IF r \in Errors THEN r ELSE bool(r)
    ELSE "True"

\* ------------------------------------------------------- bounded inputs

SeqsUpTo(S, n) == UNION {[1..k -> S] : k \in 0..n}

\* What the callables of the evaluator's inputs do with their argument.
Outs == {ConstOut(o) : o \in Outcomes}

\* Classes whose metaclass is type: int, object.
PlainClasses == {ClassTest("type", inst, ConstOut("1")) : inst \in {{"n"}, Values}}

\* Classes whose metaclass is not type (abstract base classes, enumerations):
\* calling one builds an instance (truthy or falsy) or raises.
MetaClasses == {ClassTest("custom", {"n"}, ConstOut(o)) : o \in {"1", "0", "TypeError"}}

Callables == {CallableTest(out) : out \in Outs}

LeafTests == PlainClasses \cup MetaClasses \cup Callables \cup {OtherTest}

\* Combinators nested inside a combinator.
NestedTests ==
    {all(ts) : ts \in SeqsUpTo({CallableTest(ConstOut(o)) : o \in {"True", "0", "TypeError"}}, 1)}
    \cup {any(ts) : ts \in SeqsUpTo({CallableTest(ConstOut(o)) : o \in {"1", "TypeError", "Exception"}}, 1)}

SubTests == LeafTests \cup NestedTests

TestLists == SeqsUpTo(SubTests, MaxTests)

Tests == LeafTests \cup {all(ts) : ts \in TestLists} \cup {any(ts) : ts \in TestLists}

\* Names are sequences of characters, so that a name can be unpacked.
ReturnName == <<"r", "e", "t", "u", "r", "n">>

\* The parameters a decorated function declares: a prefix of these.
ParamNames == << <<"a">>, <<"a", "b">> >>

\* The keywords a call may use.
KwKeys == {<<"a">>, <<"a", "b">>}

\* int
IntTest == ClassTest("type", {"n"}, ConstOut("1"))

\* lambda x: (x + 1) % 2 -- truthy on the number, TypeError on the string
OddTest == CallableTest([v \in Values |-> IF v = "n" THEN "1" ELSE "TypeError"])

\* a predicate that is falsy on the number and fails on the string
FailingTest == CallableTest([v \in Values |-> IF v = "n" THEN "0" ELSE "Exception"])

\* The annotations of the decorated functions.
Annotations ==
    {IntTest, OddTest, FailingTest, OtherTest,
     all(<<OddTest, FailingTest>>), any(<<OddTest, IntTest>>)}

NoTest == [kind |-> "none", meta |-> "none", inst |-> {}, out |-> ConstOut("TypeError"), subs |-> <<>>]

AnnotationMaps(names) == UNION {[D -> Annotations] : D \in SUBSET names}

Range(s) == {s[k] : k \in 1..Len(s)}

Prefixes(s) == {SubSeq(s, 1, k) : k \in 0..Len(s)}

\* Python functions always have __annotations__ (possibly empty); other
\* callables (built-ins, partial objects) have no such attribute.
Functions ==
    UNION {{[hasAnnotations |-> TRUE, args |-> ps, annotations |-> ann] :
                ann \in AnnotationMaps(Range(ps) \cup {ReturnName})} :
            ps \in Prefixes(ParamNames)}
    \cup {[hasAnnotations |-> FALSE, args |-> ps, annotations |-> <<>>] : ps \in Prefixes(ParamNames)}

NoFunction == [hasAnnotations |-> FALSE, args |-> <<>>, annotations |-> <<>>]

ArgLists == SeqsUpTo(Values, MaxArgs)

\* A call's keyword arguments in the order the dict yields them.
KwargLists ==
    {kw \in SeqsUpTo(KwKeys \X Values, MaxKwargs) :
        \A j, k \in 1..Len(kw) : j # k => kw[j][1] # kw[k][1]}

\* ----------------------------------------------------------- exceptions

NoExc == [type |-> "none", by |-> "none", name |-> <<>>, value |-> "none", expected |-> NoTest]

\* An exception that is not a TypeCheckError; by: who raised it.
Raise(type, by) == [type |-> type, by |-> by, name |-> <<>>, value |-> "none", expected |-> NoTest]

InputTypeCheckError(var_name, var_value, expected) ==
    IF var_name = ReturnName THEN Raise("TypeError", "wrapper")
    ELSE [type |-> "InputTypeCheckError", by |-> "wrapper", name |-> var_name,
          value |-> var_value, expected |-> expected]

OutputTypeCheckError(var_value, expected) ==
    [type |-> "OutputTypeCheckError", by |-> "wrapper", name |-> ReturnName,
     value |-> var_value, expected |-> expected]

\* -------------------------------------------------------------- wrapper

Min(a, b) == IF a < b THEN a ELSE b

\* typecheck(f): "f" when f itself is returned, "wrapper" otherwise.
typecheck(fn) == IF ~fn.hasAnnotations THEN "f" ELSE "wrapper"

\* One pass of either input loop: the test of name on value.
CheckInput(fn, name, value) ==
    IF name \in DOMAIN fn.annotations
    THEN LET r == _check(value, fn.annotations[name])
         IN  IF r \in Errors THEN Raise(r, "test")
             ELSE IF r # "True" THEN InputTypeCheckError(name, value, fn.annotations[name])
             ELSE NoExc
    ELSE NoExc

RECURSIVE PositionalLoop(_, _, _), KeywordLoop(_, _, _)

RECURSIVE PositionalLoopLast(_, _, _)

\* The positional loop reporting the last failure instead of the first.
PositionalLoopLast(fn, a, k) ==
    IF k > Min(Len(fn.args), Len(a)) THEN NoExc
    ELSE LET e == CheckInput(fn, fn.args[k], a[k])
             rest == PositionalLoopLast(fn, a, k + 1)
         IN  IF rest # NoExc THEN rest ELSE e

\* for name, value in zip(argspec.args, args), from pair number k on:
\* the exception that leaves the loop, NoExc when it runs to its end.
PositionalLoop(fn, a, k) ==
    IF k > Min(Len(fn.args), Len(a)) THEN NoExc
    ELSE LET e == CheckInput(fn, fn.args[k], a[k])
         IN  IF e # NoExc THEN e ELSE PositionalLoop(fn, a, k + 1)

\* for name, value in kwargs, from key number k on. Iterating the dict
\* yields its keys; each key is unpacked into name, value.
KeywordLoop(fn, kw, k) ==
    IF k > Len(kw) THEN NoExc
    ELSE LET key == kw[k][1]
         IN  IF Len(key) # 2 THEN Raise("ValueError", "wrapper")
             ELSE LET e == CheckInput(fn, <<key[1]>>, key[2])
                  IN  IF e # NoExc THEN e ELSE KeywordLoop(fn, kw, k + 1)

\* The test of the output reporting the value left over from the input loop.
OutputCheckStale(fn, out) ==
    IF ReturnName \in DOMAIN fn.annotations
    THEN LET r == _check(out, fn.annotations[ReturnName])
             value == IF args # <<>> THEN args[Len(args)] ELSE out
         IN  IF r \in Errors THEN Raise(r, "test")
             ELSE IF r # "True" THEN OutputTypeCheckError(value, fn.annotations[ReturnName])
             ELSE NoExc
    ELSE NoExc

\* The test of the output.
OutputCheck(fn, out) ==
    IF ReturnName \in DOMAIN fn.annotations
    THEN LET r == _check(out, fn.annotations[ReturnName])
         IN  IF r \in Errors THEN Raise(r, "test")
             ELSE IF r # "True" THEN OutputTypeCheckError(out, fn.annotations[ReturnName])
             ELSE NoExc
    ELSE NoExc

\* ------------------------------------------------------------ evaluator

EvalIdle ==
    /\ theSubject = "none"
    /\ theTest = NoTest
    /\ op = "off"
    /\ result = "none"
    /\ evaluated = 0

CallIdle ==
    /\ f = NoFunction
    /\ decorated = "none"
    /\ pc = "off"
    /\ args = <<>>
    /\ kwargs = <<>>
    /\ invoked = <<>>
    /\ output = "none"
    /\ exc = NoExc
    /\ retval = "none"

InitCheck ==
    /\ theSubject \in Values
    /\ theTest \in Tests
    /\ op = "none"
    /\ result = "none"
    /\ evaluated = 0
    /\ CallIdle

\* _check(subject, test)
DoCheck ==
    /\ op = "none"
    /\ op' = "_check"
    /\ result' = _check(theSubject, theTest)
    /\ evaluated' = 0
    /\ UNCHANGED <<theSubject, theTest>>
    /\ UNCHANGED callVars

\* all(*tests)(theSubject): the closure called directly.
DoAll ==
    /\ op = "none"
    /\ theTest.kind = "all"
    /\ op' = "all"
    /\ LET r == AllF(theSubject, theTest.subs)
       IN  result' = r.res /\ evaluated' = r.n
    /\ UNCHANGED <<theSubject, theTest>>
    /\ UNCHANGED callVars

\* any(*tests)(theSubject): the closure called directly.
DoAny ==
    /\ op = "none"
    /\ theTest.kind = "any"
    /\ op' = "any"
    /\ LET r == AnyF(theSubject, theTest.subs)
       IN  result' = r.res /\ evaluated' = r.n
    /\ UNCHANGED <<theSubject, theTest>>
    /\ UNCHANGED callVars

\* ------------------------------------------------------------ decorator

InitTypecheck ==
    /\ EvalIdle
    /\ f \in Functions
    /\ decorated = "none"
    /\ pc = "defined"
    /\ args = <<>>
    /\ kwargs = <<>>
    /\ invoked = <<>>
    /\ output = "none"
    /\ exc = NoExc
    /\ retval = "none"

\* @typecheck
Typecheck ==
    /\ pc = "defined"
    /\ decorated' = typecheck(f)
    /\ pc' = "idle"
    /\ UNCHANGED <<f, args, kwargs, invoked, output, exc, retval>>
    /\ UNCHANGED evalVars

\* A call of what typecheck() returned.
CallDecorated ==
    /\ pc = "idle"
    /\ \E a \in ArgLists, kw \in KwargLists : args' = a /\ kwargs' = kw
    /\ pc' = IF decorated = "wrapper" THEN "Unchecked" ELSE "InputsChecked"
    /\ UNCHANGED <<f, decorated, invoked, output, exc, retval>>
    /\ UNCHANGED evalVars

\* wrapper: the loop over the positional arguments.
CheckPositional ==
    /\ pc = "Unchecked"
    /\ LET e == PositionalLoop(f, args, 1)
       IN  /\ exc' = e
           /\ pc' = IF e = NoExc THEN "PositionalChecked" ELSE "Raised"
    /\ UNCHANGED <<f, decorated, args, kwargs, invoked, output, retval>>
    /\ UNCHANGED evalVars

\* wrapper: the loop over the keyword arguments.
CheckKeyword ==
    /\ pc = "PositionalChecked"
    /\ LET e == KeywordLoop(f, kwargs, 1)
       IN  /\ exc' = e
           /\ pc' = IF e = NoExc THEN "InputsChecked" ELSE "Raised"
    /\ UNCHANGED <<f, decorated, args, kwargs, invoked, output, retval>>
    /\ UNCHANGED evalVars

\* output = f(*args, **kwargs): f returns a value or raises.
Execute ==
    /\ pc = "InputsChecked"
    /\ \E o \in Values \cup {"raise"} :
        /\ invoked' = Append(invoked, [args |-> args, kwargs |-> kwargs, ret |-> o])
        /\ IF o = "raise"
           THEN /\ exc' = Raise("Exception", "body")
                /\ pc' = "Raised"
                /\ UNCHANGED output
           ELSE /\ output' = o
                /\ pc' = "Executed"
                /\ UNCHANGED exc
    /\ UNCHANGED <<f, decorated, args, kwargs, retval>>
    /\ UNCHANGED evalVars

\* wrapper: the theTest of the output. The undecorated f has none.
CheckOutput ==
    /\ pc = "Executed"
    /\ LET e == IF decorated = "wrapper" THEN OutputCheck(f, output) ELSE NoExc
       IN  /\ exc' = e
           /\ pc' = IF e = NoExc THEN "OutputChecked" ELSE "Raised"
    /\ UNCHANGED <<f, decorated, args, kwargs, invoked, output, retval>>
    /\ UNCHANGED evalVars

\* return output
Return ==
    /\ pc = "OutputChecked"
    /\ retval' = output
    /\ pc' = "Returned"
    /\ UNCHANGED <<f, decorated, args, kwargs, invoked, output, exc>>
    /\ UNCHANGED evalVars

\* -------------------------------------------------------- specification

Init == InitCheck \/ InitTypecheck

Next ==
    \/ DoCheck
    \/ DoAll
    \/ DoAny
    \/ Typecheck
    \/ CallDecorated
    \/ CheckPositional
    \/ CheckKeyword
    \/ Execute
    \/ CheckOutput
    \/ Return

Spec == Init /\ [][Next]_vars

\* --------------------------------------------------------------- claims

MinOf(S) == CHOOSE k \in S : \A j \in S : k <= j

\* The tests of a list that x does not pass: they return False or raise.
NotPassed(x, tests) == {k \in 1..Len(tests) : _check(x, tests[k]) # "True"}

\* The tests of a list at which any() may stop on x.
Stops(x, tests) == {k \in 1..Len(tests) : _check(x, tests[k]) \in {"True", "Exception"}}

\* The closure of all() has been applied, directly or through _check().
AllApplied == theTest.kind = "all" /\ op \in {"all", "_check"}

AnyApplied == theTest.kind = "any" /\ op \in {"any", "_check"}

\* C6: all(s1..sn) on v returns true iff every si evaluates to true on v (so
\* true when n = 0); the tests are evaluated left to right and none is
\* evaluated after the first one that does not evaluate to true.
C6_AllConjunction ==
    AllApplied =>
        LET N == NotPassed(theSubject, theTest.subs)
        IN  /\ (result = "True") <=> (N = {})
            /\ (N # {} /\ _check(theSubject, theTest.subs[MinOf(N)]) = "False") => result = "False"
            /\ op = "all" => evaluated = IF N = {} THEN Len(theTest.subs) ELSE MinOf(N)

\* C6 witness: the first of several tests is false and all() stops there.
C6_Witness ==
    /\ op = "all"
    /\ Len(theTest.subs) >= 2
    /\ _check(theSubject, theTest.subs[1]) = "False"
    /\ result = "False"
    /\ evaluated = 1

\* C7 as stated: any(s1..sn) on v returns true iff some si evaluates to true;
\* a test that raises counts as false and its error never leaves any().
C7_AnyCatchesEveryError ==
    AnyApplied =>
        /\ result \in {"True", "False"}
        /\ (result = "True") <=> (\E k \in 1..Len(theTest.subs) : _check(theSubject, theTest.subs[k]) = "True")

\* C7 amended: a test that raises TypeError counts as false and any() goes on
\* to the next test; any other error leaves any() and ends the evaluation;
\* any() stops at the first test that is true; it returns true iff some test
\* is true and no earlier test raises an error other than TypeError, and
\* false when every test is false or raises TypeError (so false when n = 0).
C7_AnyCatchesTypeError ==
    AnyApplied =>
        LET S == Stops(theSubject, theTest.subs)
        IN  IF S = {}
            THEN result = "False" /\ (op = "any" => evaluated = Len(theTest.subs))
            ELSE /\ result = _check(theSubject, theTest.subs[MinOf(S)])
                 /\ op = "any" => evaluated = MinOf(S)

\* C7 witness: the first test raises TypeError, the second is true.
C7_Witness ==
    /\ op = "any"
    /\ Len(theTest.subs) >= 2
    /\ _check(theSubject, theTest.subs[1]) = "TypeError"
    /\ _check(theSubject, theTest.subs[2]) = "True"
    /\ result = "True"
    /\ evaluated = 2

\* C8: on a test that is no combinator, _check() is instance-of for every
\* class, the truth value of p(v) for a callable that is no class, and true
\* for everything else.
C8_ThreeWay ==
    (op = "_check" /\ theTest.kind \in {"class", "callable", "other"}) =>
        result = CASE theTest.kind = "class" -> isinstance(theSubject, theTest)
                   [] theTest.kind = "callable" ->
                        IF theTest.out[theSubject] \in Errors THEN theTest.out[theSubject]
                        ELSE bool(theTest.out[theSubject])
                   [] OTHER -> "True"

\* A call of the wrapper is under way or has ended.
InCall == decorated = "wrapper" /\ pc \notin {"off", "defined", "idle"}

\* The positional arguments bound to a parameter with an annotation.
Declared == {k \in 1..Min(Len(f.args), Len(args)) : f.args[k] \in DOMAIN f.annotations}

PosResult(k) == _check(args[k], f.annotations[f.args[k]])

\* The keyword arguments naming a parameter with an annotation.
DeclaredKw == {k \in 1..Len(kwargs) : kwargs[k][1] \in DOMAIN f.annotations}

KwResult(k) == _check(kwargs[k][2], f.annotations[kwargs[k][1]])

PosFailed == {k \in Declared : PosResult(k) = "False"}

\* C1 as stated: when some positional argument fails its test, the call
\* raises InputTypeCheckError for the first failing parameter and f is not
\* called at any point of the call.
C1_FirstFailingPositional ==
    (InCall /\ PosFailed # {}) =>
        /\ invoked = <<>>
        /\ pc # "Unchecked" =>
              LET k == MinOf(PosFailed)
              IN  /\ pc = "Raised"
                  /\ exc = [type |-> "InputTypeCheckError", by |-> "wrapper", name |-> f.args[k],
                            value |-> args[k], expected |-> f.annotations[f.args[k]]]

\* C1 amended: when some positional argument fails its test and the test of
\* no earlier positional argument raises an error, the call raises
\* InputTypeCheckError with the name, value and test of the first failing
\* parameter in declared order, and f is not called at any point of the call.
C1_FirstFailingUnlessEarlierRaises ==
    (/\ InCall
     /\ PosFailed # {}
     /\ \A j \in Declared : j < MinOf(PosFailed) => PosResult(j) \notin Errors) =>
        /\ invoked = <<>>
        /\ pc # "Unchecked" =>
              LET k == MinOf(PosFailed)
              IN  /\ pc = "Raised"
                  /\ exc = [type |-> "InputTypeCheckError", by |-> "wrapper", name |-> f.args[k],
                            value |-> args[k], expected |-> f.annotations[f.args[k]]]

\* C1 witness: two positional arguments fail and the first one is reported.
C1_Witness ==
    /\ InCall
    /\ Cardinality(PosFailed) = 2
    /\ pc = "Raised"
    /\ exc.type = "InputTypeCheckError"
    /\ exc.name = f.args[1]
    /\ invoked = <<>>

\* C2: a keyword argument is bound to the parameter it names, and when its
\* value fails that parameter's test the call raises InputTypeCheckError with
\* that name, value and test before f is called. (Stated for calls whose
\* positional arguments pass and none of whose keyword tests raises.)
C2_KeywordChecked ==
    (/\ InCall
     /\ pc \notin {"Unchecked", "PositionalChecked"}
     /\ \A k \in Declared : PosResult(k) = "True"
     /\ \A k \in DeclaredKw : KwResult(k) \notin Errors
     /\ \E k \in DeclaredKw : KwResult(k) = "False") =>
        /\ pc = "Raised"
        /\ invoked = <<>>
        /\ \E k \in DeclaredKw :
              /\ KwResult(k) = "False"
              /\ exc = [type |-> "InputTypeCheckError", by |-> "wrapper", name |-> kwargs[k][1],
                        value |-> kwargs[k][2], expected |-> f.annotations[kwargs[k][1]]]

\* C3: in a call whose arguments all satisfy their tests, f is called exactly
\* once with exactly the call's positional and keyword arguments, the wrapper
\* raises nothing of its own, and when the value f returns satisfies the
\* return test the call returns exactly that value.
C3_SameCallContract ==
    (/\ InCall
     /\ pc \in {"Returned", "Raised"}
     /\ \A k \in Declared : PosResult(k) = "True"
     /\ \A k \in DeclaredKw : KwResult(k) = "True") =>
        /\ Len(invoked) = 1
        /\ invoked[1].args = args
        /\ invoked[1].kwargs = kwargs
        /\ (/\ invoked[1].ret \in Values
            /\ ReturnName \in DOMAIN f.annotations =>
                  _check(invoked[1].ret, f.annotations[ReturnName]) = "True") =>
              /\ pc = "Returned"
              /\ retval = invoked[1].ret
              /\ exc = NoExc

\* C4: typecheck() of a function that declares no annotation at all returns
\* the function itself.
C4_NoAnnotationsNoWrapper ==
    (pc \notin {"off", "defined"} /\ DOMAIN f.annotations = {}) => decorated = "f"

\* C5: with a return annotation, the value tested is the value f returned in
\* this call; when it fails, the call raises OutputTypeCheckError named
\* "return" with that value and the return annotation, and only after f has
\* been called; when it passes, the call raises nothing.
C5_OutputChecked ==
    /\ (/\ InCall
        /\ ReturnName \in DOMAIN f.annotations
        /\ output # "none"
        /\ pc \in {"OutputChecked", "Returned", "Raised"}) =>
          LET r == _check(invoked[1].ret, f.annotations[ReturnName])
          IN  /\ Len(invoked) = 1
              /\ r = "False" =>
                    /\ pc = "Raised"
                    /\ exc = [type |-> "OutputTypeCheckError", by |-> "wrapper",
                              name |-> ReturnName, value |-> invoked[1].ret,
                              expected |-> f.annotations[ReturnName]]
              /\ r = "True" => pc # "Raised" /\ exc = NoExc
    /\ exc.type = "OutputTypeCheckError" => Len(invoked) = 1 /\ invoked[1].ret \in Values

\* C5 witness: the call raised OutputTypeCheckError for a returned value that
\* is not the last positional argument.
C5_Witness ==
    /\ InCall
    /\ pc = "Raised"
    /\ exc.type = "OutputTypeCheckError"
    /\ args # <<>>
    /\ args[Len(args)] # output
    /\ exc.value = output

\* C9: an error raised by a callable test leaves _check() unchanged; in all()
\* it leaves the closure unchanged and no later test is evaluated; in a call
\* of the wrapper it leaves the call unchanged, in place of any
\* InputTypeCheckError / OutputTypeCheckError.
C9_ErrorsPropagate ==
    /\ (op = "_check" /\ theTest.kind = "callable" /\ theTest.out[theSubject] \in Errors) =>
          result = theTest.out[theSubject]
    /\ AllApplied =>
          LET N == NotPassed(theSubject, theTest.subs)
          IN  (N # {} /\ _check(theSubject, theTest.subs[MinOf(N)]) \in Errors) =>
                /\ result = _check(theSubject, theTest.subs[MinOf(N)])
                /\ op = "all" => evaluated = MinOf(N)
    /\ (InCall /\ pc # "Unchecked") =>
          LET N == {k \in Declared : PosResult(k) # "True"}
          IN  (N # {} /\ PosResult(MinOf(N)) \in Errors) =>
                /\ pc = "Raised"
                /\ exc = Raise(PosResult(MinOf(N)), "test")
                /\ invoked = <<>>
    /\ (/\ InCall
        /\ ReturnName \in DOMAIN f.annotations
        /\ output # "none"
        /\ pc \in {"OutputChecked", "Returned", "Raised"}
        /\ _check(output, f.annotations[ReturnName]) \in Errors) =>
          /\ pc = "Raised"
          /\ exc = Raise(_check(output, f.annotations[ReturnName]), "test")

\* C9 witness: a test of all() raised in the test of the output, after f ran.
C9_Witness ==
    /\ InCall
    /\ pc = "Raised"
    /\ exc.by = "test"
    /\ Len(invoked) = 1
    /\ f.annotations[ReturnName].kind = "all"

\* C10: f is called at most once per call and only after the input tests,
\* and a call that the wrapper itself ends by raising has failed a test: an
\* input test before f was called or the output test after f was called.
C10_CallStateMachine ==
    InCall =>
        /\ Len(invoked) <= 1
        /\ invoked # <<>> => pc \in {"Executed", "OutputChecked", "Returned", "Raised"}
        /\ (pc = "Raised" /\ exc.by = "wrapper") =>
              \/ exc.type = "InputTypeCheckError" /\ invoked = <<>>
              \/ exc.type = "OutputTypeCheckError" /\ Len(invoked) = 1

====
